---- MODULE Spec2Model ----
(***************************************************************************)
(* Upload coordinator (src/src/coordinator.ts, generator variant, lines    *)
(* 189-513): the bandwidth gatekeeper (activeUploads / queue), the bounded *)
(* concurrency driver processConcurrently, the two lazy generators and the *)
(* two-phase orchestration coordinateUploads.                              *)
(*                                                                         *)
(* Three specifications share the variables:                               *)
(*   SpecGate    arbitrary acquireUploadSlot / releaseUploadSlot calls     *)
(*   SpecDriver  one processConcurrently(initiateFilesGenerator, C) call   *)
(*   Spec        one coordinateUploads call (FairSpec adds fairness)       *)
(***************************************************************************)
EXTENDS Integers, Sequences, FiniteSets, TLC

\* ------------------------------------------------------------------------
\* Program constants
\* ------------------------------------------------------------------------
SMALL_FILE_THRESHOLD == 65 * 1024 * 1024
MAX_CONCURRENT_SMALL == 5
\* mutant of MAX_CONCURRENT_LARGE: one slot less than for small files
MaxConcurrentLargeLoose == MAX_CONCURRENT_SMALL - 1

MAX_CONCURRENT_LARGE == 3
MAX_CONCURRENT_INITIATES == 10
MAX_CONCURRENT_UPLOAD_TRIGGERS == 10

\* ------------------------------------------------------------------------
\* Bounds of the model
\* ------------------------------------------------------------------------
\* number of acquireUploadSlot calls in SpecGate
MaxCalls == 7
\* number of items of a processConcurrently run in SpecDriver
MaxItems == 3
\* largest concurrency argument in SpecDriver
MaxConcurrency == 2
\* number of files of a coordinateUploads run in Spec
MaxFiles == 4
\* number of initiateFn / uploadFn calls that reject in one coordinateUploads run in Spec
MaxBatch == 5

MaxInFlight == 4

MaxIds == 2

MaxInitiateCalls == 11

MaxRunFiles == 5

MaxRunFiles2 == 1

MaxRejects == 1

\* file sizes: the largest small size and the smallest large size
FileSizes == {SMALL_FILE_THRESHOLD, SMALL_FILE_THRESHOLD + 1}

VARIABLES
  activeUploads,  \* Map<FileId, number>: fileId -> fileSize of the slot holders
  queue,          \* QueueItem[]: [fileId, fileSize, resolve], resolve names the suspended caller
  granted,        \* callers whose acquireUploadSlot promise has been resolved
  released,       \* per caller: number of releaseUploadSlot calls made by its finally block
  admitLog,       \* history: callers in the order they were inserted into activeUploads
  queuedLog,      \* history: callers in the order they were pushed on queue
  calls,          \* number of acquireUploadSlot calls made so far
  files,          \* the files argument: sequence of [fileId, fileSize]
  phase,          \* position of coordinateUploads: "initiate", "upload", "returned"
  concurrency,    \* the concurrency argument of the running processConcurrently
  pc,             \* position of processConcurrently: "loop", "race", "all", "done", "rejected"
  genPos,         \* number of items the generator has yielded
  results,        \* results: sequence of [status, value]
  executing,      \* executing: the workers (named by item) not yet deleted
  awaited,        \* the workers handed to the pending Promise.race / Promise.all
  index,          \* per item: the index its worker closure captured
  promise,        \* per item: state of the promise the generator yielded
  worker,         \* per item: state of the worker promise (then/catch/finally chain)
  wrapper,        \* per item: position of processFileUpload
  factoryLog,     \* history: items whose factory was invoked, in call order
  rejectBudget,   \* environment: number of external operations that may still reject
  initiateResults,
  uploadResults,
  activeInitiates, \* queue-based variant: Set<FileId> of the initiates holding a slot
  initiateQueue,   \* queue-based variant: InitiateQueueItem[]: [fileId, resolve]
  initiateOp,      \* queue-based variant, per queueFileInitiate call: [path, status]
  run2             \* a second coordinateUploads run on the same module: its own locals

gateVars == <<activeUploads, queue, granted, released, admitLog, queuedLog, calls>>

driverVars == <<concurrency, pc, genPos, results, executing, awaited, index, promise, worker, factoryLog>>

coordVars == <<files, phase, wrapper, rejectBudget, initiateResults, uploadResults>>

queueVars == <<activeInitiates, initiateQueue, initiateOp>>

\* what the generator-based functions of one run never touch
otherVars == <<queueVars, run2>>

vars == <<gateVars, driverVars, coordVars, otherVars>>

\* ------------------------------------------------------------------------
\* Map and sequence helpers
\* ------------------------------------------------------------------------
EmptyMap == [x \in {} |-> 0]

MapSize(m) == Cardinality(DOMAIN m)

MapSet(m, k, v) == [x \in (DOMAIN m) \cup {k} |-> IF x = k THEN v ELSE m[x]]

MapDelete(m, k) == [x \in (DOMAIN m) \ {k} |-> m[x]]

Range(s) == {s[i] : i \in DOMAIN s}

\* position of the first occurrence of x in s, 0 when absent
IndexOf(s, x) == IF x \in Range(s) THEN CHOOSE i \in DOMAIN s : s[i] = x /\ \A j \in 1..(i-1) : s[j] # x ELSE 0

\* ------------------------------------------------------------------------
\* Bandwidth gatekeeper
\* ------------------------------------------------------------------------
\* mutant of getMaxConcurrentSlots: the capacity ignores the sizes
getMaxConcurrentSlotsStatic(active) == MAX_CONCURRENT_SMALL

\* mutant of getMaxConcurrentSlots: a file of exactly the threshold size counts as large
getMaxConcurrentSlotsInclusive(active) ==
  IF \E f \in DOMAIN active : active[f] >= SMALL_FILE_THRESHOLD
    THEN MAX_CONCURRENT_LARGE
    ELSE MAX_CONCURRENT_SMALL

getMaxConcurrentSlots(active) ==
  IF \E f \in DOMAIN active : active[f] > SMALL_FILE_THRESHOLD
    THEN MAX_CONCURRENT_LARGE
    ELSE MAX_CONCURRENT_SMALL

\* mutant of processQueueLoop: the waiter that arrived last is taken first
RECURSIVE processQueueLoopLifo(_, _, _, _)
processQueueLoopLifo(maxSlots, active, q, log) ==
  IF Len(q) > 0 /\ MapSize(active) < maxSlots
    THEN LET next == q[Len(q)]
         IN processQueueLoopLifo(maxSlots,
                                 MapSet(active, next.fileId, next.fileSize),
                                 SubSeq(q, 1, Len(q) - 1),
                                 Append(log, next.resolve))
    ELSE [active |-> active, queue |-> q, log |-> log]

\* the while loop of processQueue: maxSlots is the value read before the loop;
\* log collects the resolve callbacks in the order they are called
RECURSIVE processQueueLoop(_, _, _, _)
processQueueLoop(maxSlots, active, q, log) ==
  IF Len(q) > 0 /\ MapSize(active) < maxSlots
    THEN LET next == Head(q)
         IN processQueueLoop(maxSlots,
                             MapSet(active, next.fileId, next.fileSize),
                             Tail(q),
                             Append(log, next.resolve))
    ELSE [active |-> active, queue |-> q, log |-> log]

\* mutant of processQueue: a drain admits at most one waiter
processQueueOnce(active, q) ==
  IF Len(q) > 0 /\ MapSize(active) < getMaxConcurrentSlots(active)
    THEN [active |-> MapSet(active, Head(q).fileId, Head(q).fileSize),
          queue |-> Tail(q),
          log |-> <<Head(q).resolve>>]
    ELSE [active |-> active, queue |-> q, log |-> <<>>]

\* mutant of processQueue: a large waiter at the head of the queue is never taken
processQueueSmallOnly(active, q) ==
  IF Len(q) = 0 \/ Head(q).fileSize > SMALL_FILE_THRESHOLD
    THEN [active |-> active, queue |-> q, log |-> <<>>]
    ELSE processQueueLoop(getMaxConcurrentSlots(active), active, q, <<>>)

\* mutant of processQueue: the admitted waiter is not taken off the queue
processQueueNoShift(active, q) ==
  IF Len(q) > 0 /\ MapSize(active) < getMaxConcurrentSlots(active)
    THEN [active |-> MapSet(active, Head(q).fileId, Head(q).fileSize),
          queue |-> q,
          log |-> <<Head(q).resolve>>]
    ELSE [active |-> active, queue |-> q, log |-> <<>>]

processQueue(active, q) ==
  IF Len(q) = 0
    THEN [active |-> active, queue |-> q, log |-> <<>>]
    ELSE processQueueLoop(getMaxConcurrentSlots(active), active, q, <<>>)

\* mutant of acquireUploadSlot: an id that is already active is made to wait
acquireUploadSlotUnique(active, q, fileId, fileSize, caller) ==
  IF MapSize(active) < getMaxConcurrentSlots(active) /\ fileId \notin DOMAIN active
    THEN [active |-> MapSet(active, fileId, fileSize), queue |-> q, admitted |-> TRUE]
    ELSE [active |-> active,
          queue |-> Append(q, [fileId |-> fileId, fileSize |-> fileSize, resolve |-> caller]),
          admitted |-> FALSE]

\* mutant of acquireUploadSlot: the slot test is <= instead of <
acquireUploadSlotOffByOne(active, q, fileId, fileSize, caller) ==
  LET maxSlots == getMaxConcurrentSlots(active)
  IN IF MapSize(active) <= maxSlots
       THEN [active |-> MapSet(active, fileId, fileSize), queue |-> q, admitted |-> TRUE]
       ELSE [active |-> active,
             queue |-> Append(q, [fileId |-> fileId, fileSize |-> fileSize, resolve |-> caller]),
             admitted |-> FALSE]

\* mutant of acquireUploadSlot: the capacity is that of the active set with
\* the candidate already folded in
acquireUploadSlotWouldBe(active, q, fileId, fileSize, caller) ==
  LET maxSlots == getMaxConcurrentSlots(MapSet(active, fileId, fileSize))
  IN IF MapSize(active) < maxSlots
       THEN [active |-> MapSet(active, fileId, fileSize), queue |-> q, admitted |-> TRUE]
       ELSE [active |-> active,
             queue |-> Append(q, [fileId |-> fileId, fileSize |-> fileSize, resolve |-> caller]),
             admitted |-> FALSE]

\* the synchronous body of acquireUploadSlot; admitted tells whether the
\* returned promise is already resolved
acquireUploadSlot(active, q, fileId, fileSize, caller) ==
  LET maxSlots == getMaxConcurrentSlots(active)
  IN IF MapSize(active) < maxSlots
       THEN [active |-> MapSet(active, fileId, fileSize), queue |-> q, admitted |-> TRUE]
       ELSE [active |-> active,
             queue |-> Append(q, [fileId |-> fileId, fileSize |-> fileSize, resolve |-> caller]),
             admitted |-> FALSE]

\* mutant of releaseUploadSlot: the queue is processed before the slot is freed
releaseUploadSlotDrainFirst(active, q, fileId) ==
  LET r == processQueue(active, q)
  IN [active |-> MapDelete(r.active, fileId), queue |-> r.queue, log |-> r.log]

\* mutant of releaseUploadSlot: while the active count exceeds the capacity
\* the most recent member is evicted before the queue is processed
releaseUploadSlotEvicting(active, q, fileId) ==
  LET rest == MapDelete(active, fileId)
      last == CHOOSE f \in DOMAIN rest : \A g \in DOMAIN rest : g <= f
  IN IF MapSize(rest) > getMaxConcurrentSlots(rest)
       THEN processQueue(MapDelete(rest, last), q)
       ELSE processQueue(rest, q)

\* mutant of releaseUploadSlot: the slot is freed but the queue is not processed
releaseUploadSlotNoDrain(active, q, fileId) ==
  [active |-> MapDelete(active, fileId), queue |-> q, log |-> <<>>]

releaseUploadSlot(active, q, fileId) == processQueue(MapDelete(active, fileId), q)

\* the snapshot getCoordinatorState returns
getCoordinatorState(active, q) ==
  [activeUploads |-> {[fileId |-> f, fileSize |-> active[f]] : f \in DOMAIN active},
   uploadQueueSize |-> Len(q),
   maxConcurrentSlots |-> getMaxConcurrentSlots(active)]

\* mutant of resetCoordinator: only the active set is cleared
resetCoordinatorKeepsQueue(active, q) == [active |-> EmptyMap, queue |-> q]

\* activeUploads.clear(); queue.length = 0: the queued resolvers are dropped
\* without being called
resetCoordinator(active, q) == [active |-> EmptyMap, queue |-> <<>>]

\* effect of one acquireUploadSlot(fileId, fileSize) call by caller on the state
DoAcquire(fileId, fileSize, caller) ==
  LET r == acquireUploadSlot(activeUploads, queue, fileId, fileSize, caller)
  IN /\ activeUploads' = r.active
     /\ queue' = r.queue
     /\ granted' = IF r.admitted THEN granted \cup {caller} ELSE granted
     /\ admitLog' = IF r.admitted THEN Append(admitLog, caller) ELSE admitLog
     /\ queuedLog' = IF r.admitted THEN queuedLog ELSE Append(queuedLog, caller)
     /\ calls' = calls + 1

\* effect of one releaseUploadSlot(fileId) call on the state
DoRelease(fileId) ==
  LET r == releaseUploadSlot(activeUploads, queue, fileId)
  IN /\ activeUploads' = r.active
     /\ queue' = r.queue
     /\ granted' = granted \cup Range(r.log)
     /\ admitLog' = admitLog \o r.log
     /\ UNCHANGED <<queuedLog, calls>>

\* ------------------------------------------------------------------------
\* SpecGate: any sequence of acquire / release calls with unique ids.
\* The k-th acquire call uses the fresh id k and is made by caller k.
\* ------------------------------------------------------------------------
\* the locals of a coordinateUploads run that was never started
NoSecondRun == [files |-> <<>>]

\* a queueFileInitiate call that has not been made
NotCalled == [path |-> "none", status |-> "none"]

\* the module-level state right after the module is loaded
InitGatekeeper ==
  /\ activeInitiates = {}
  /\ initiateQueue = <<>>
  /\ initiateOp = [k \in 1..MaxInitiateCalls |-> NotCalled]
  /\ activeUploads = EmptyMap
  /\ queue = <<>>
  /\ granted = {}
  /\ admitLog = <<>>
  /\ queuedLog = <<>>
  /\ calls = 0

\* no processConcurrently / coordinateUploads call is running
NoRun ==
  /\ files = <<>>
  /\ phase = "none"
  /\ concurrency = 0
  /\ pc = "none"
  /\ genPos = 0
  /\ results = <<>>
  /\ executing = {}
  /\ awaited = {}
  /\ index = <<>>
  /\ promise = <<>>
  /\ worker = <<>>
  /\ wrapper = <<>>
  /\ factoryLog = <<>>
  /\ rejectBudget = 0
  /\ initiateResults = <<>>
  /\ uploadResults = <<>>

InitGate ==
  /\ InitGatekeeper
  /\ run2 = NoSecondRun
  /\ released = [c \in 1..MaxCalls |-> 0]
  /\ NoRun

GateAcquire ==
  /\ calls < MaxCalls
  /\ \E fileSize \in FileSizes : DoAcquire(calls + 1, fileSize, calls + 1)
  /\ UNCHANGED <<released, driverVars, coordVars>>
  /\ UNCHANGED otherVars

\* releaseUploadSlot(fileId) is called
GateReleaseOf(fileId) ==
  /\ DoRelease(fileId)
  /\ UNCHANGED <<released, driverVars, coordVars>>
  /\ UNCHANGED otherVars

GateRelease == \E fileId \in 1..MaxCalls : GateReleaseOf(fileId)

\* mutant of GateReset: the reset calls the resolve callback of every waiter it drops
GateResetResolving ==
  /\ LET r == resetCoordinator(activeUploads, queue)
     IN /\ activeUploads' = r.active
        /\ queue' = r.queue
  /\ granted' = granted \cup {queue[k].resolve : k \in DOMAIN queue}
  /\ UNCHANGED <<admitLog, queuedLog, calls, released, driverVars, coordVars>>
  /\ UNCHANGED otherVars

\* resetCoordinator() is called
GateReset ==
  /\ LET r == resetCoordinator(activeUploads, queue)
     IN /\ activeUploads' = r.active
        /\ queue' = r.queue
  /\ UNCHANGED <<granted, admitLog, queuedLog, calls, released, driverVars, coordVars>>
  /\ UNCHANGED otherVars

NextGate == GateAcquire \/ GateRelease

SpecGate == InitGate /\ [][NextGate]_vars

\* every upload that holds a slot settles, so its finally block releases it
FairnessGate == \A f \in 1..MaxCalls : WF_vars(f \in DOMAIN activeUploads /\ GateReleaseOf(f))

FairGate == SpecGate /\ FairnessGate

\* SpecReset: any sequence of acquire / release / reset calls
NextReset == GateAcquire \/ GateRelease \/ GateReset

SpecReset == InitGate /\ [][NextReset]_vars

\* ------------------------------------------------------------------------
\* processConcurrently, driven over initiateFilesGenerator (phase "initiate")
\* or processUploadsGenerator (phase "upload").  Items are named by their
\* position in files; the worker of item i is named i.
\* ------------------------------------------------------------------------
Items == 1..Len(files)

Blank == [i \in Items |-> "none"]

\* results.push({ status: 'fulfilled', value: undefined })
Placeholder == [status |-> "fulfilled", value |-> 0]

\* const index = results.length (the model's sequences are 1-based)
CapturedIndex(res) == Len(res) + 1

\* mutant of AtCapacity: the driver waits only once the limit is exceeded
AtCapacityStrict(exec, c) == Cardinality(exec) > c

\* if (executing.size >= concurrency)
AtCapacity(exec, c) == Cardinality(exec) >= c

\* the for-of loops of the two generators: the item the next advance yields
NextItem(pos) == pos + 1

\* mutant of GeneratorDone: the generator stops one item early
GeneratorDoneEarly(pos) == pos >= Len(files) - 1

GeneratorDone(pos) == pos >= Len(files)

\* mutant of LoopBody: the loop never awaits Promise.race
LoopBodyEager(i) ==
  /\ index' = [index EXCEPT ![i] = CapturedIndex(results)]
  /\ results' = Append(results, Placeholder)
  /\ worker' = [worker EXCEPT ![i] = "pending"]
  /\ executing' = executing \cup {i}
  /\ pc' = "loop"
  /\ awaited' = awaited

\* the body of the for-of loop of processConcurrently for the promise of item i
LoopBody(i) ==
  /\ index' = [index EXCEPT ![i] = CapturedIndex(results)]
  /\ results' = Append(results, Placeholder)
  /\ worker' = [worker EXCEPT ![i] = "pending"]
  /\ executing' = executing \cup {i}
  /\ IF AtCapacity(executing', concurrency)
       THEN pc' = "race" /\ awaited' = executing'
       ELSE pc' = "loop" /\ awaited' = awaited

\* the driver advances initiateFilesGenerator: initiateFn(fileId) is called
InitiatePull ==
  /\ phase = "initiate"
  /\ pc = "loop"
  /\ ~GeneratorDone(genPos)
  /\ LET i == NextItem(genPos)
     IN /\ genPos' = i
        /\ factoryLog' = Append(factoryLog, i)
        /\ promise' = [promise EXCEPT ![i] = "pending"]
        /\ LoopBody(i)
  /\ UNCHANGED <<concurrency, gateVars, coordVars>>
  /\ UNCHANGED otherVars

\* the driver advances processUploadsGenerator: processFileUpload(file) runs
\* up to its first await, i.e. through the body of acquireUploadSlot
UploadPull ==
  /\ phase = "upload"
  /\ pc = "loop"
  /\ ~GeneratorDone(genPos)
  /\ LET i == NextItem(genPos)
     IN /\ genPos' = i
        /\ factoryLog' = Append(factoryLog, i)
        /\ promise' = [promise EXCEPT ![i] = "pending"]
        /\ wrapper' = [wrapper EXCEPT ![i] = "acquire"]
        /\ DoAcquire(files[i].fileId, files[i].fileSize, i)
        /\ LoopBody(i)
  /\ UNCHANGED <<concurrency, released, files, phase, rejectBudget, initiateResults, uploadResults>>
  /\ UNCHANGED otherVars

\* mutant of DriverExhausted: the driver returns without awaiting the workers
DriverExhaustedNoWait ==
  /\ pc = "loop"
  /\ GeneratorDone(genPos)
  /\ pc' = "done"
  /\ awaited' = {}
  /\ UNCHANGED <<concurrency, genPos, results, executing, index, promise, worker, factoryLog,
                 gateVars, coordVars>>
  /\ UNCHANGED otherVars

\* the generator is exhausted: await Promise.all(executing)
DriverExhausted ==
  /\ pc = "loop"
  /\ GeneratorDone(genPos)
  /\ pc' = "all"
  /\ awaited' = executing
  /\ UNCHANGED <<concurrency, genPos, results, executing, index, promise, worker, factoryLog,
                 gateVars, coordVars>>
  /\ UNCHANGED otherVars

\* mutant of DriverResumeRace: the loop goes on without waiting for a worker
DriverResumeRaceNoWait ==
  /\ pc = "race"
  /\ pc' = "loop"
  /\ awaited' = {}
  /\ UNCHANGED <<concurrency, genPos, results, executing, index, promise, worker, factoryLog,
                 gateVars, coordVars>>
  /\ UNCHANGED otherVars

\* await Promise.race(executing) settles as the first settled worker did
DriverResumeRace ==
  /\ pc = "race"
  /\ \E i \in awaited :
       /\ worker[i] # "pending"
       /\ pc' = IF worker[i] = "rejected" THEN "rejected" ELSE "loop"
  /\ awaited' = {}
  /\ UNCHANGED <<concurrency, genPos, results, executing, index, promise, worker, factoryLog,
                 gateVars, coordVars>>
  /\ UNCHANGED otherVars

\* mutant of DriverResumeAll: the driver returns as soon as one worker is
\* fulfilled
DriverResumeAllFirst ==
  /\ pc = "all"
  /\ \/ /\ \E i \in awaited : worker[i] = "rejected"
        /\ pc' = "rejected"
     \/ /\ awaited = {} \/ \E i \in awaited : worker[i] = "fulfilled"
        /\ pc' = "done"
  /\ awaited' = {}
  /\ UNCHANGED <<concurrency, genPos, results, executing, index, promise, worker, factoryLog,
                 gateVars, coordVars>>
  /\ UNCHANGED otherVars

\* await Promise.all(executing): rejects with a rejected worker, otherwise
\* fulfils once every worker is fulfilled; then return results
DriverResumeAll ==
  /\ pc = "all"
  /\ \/ /\ \E i \in awaited : worker[i] = "rejected"
        /\ pc' = "rejected"
     \/ /\ \A i \in awaited : worker[i] = "fulfilled"
        /\ pc' = "done"
  /\ awaited' = {}
  /\ UNCHANGED <<concurrency, genPos, results, executing, index, promise, worker, factoryLog,
                 gateVars, coordVars>>
  /\ UNCHANGED otherVars

\* the states an external operation may settle in
Outcomes == IF rejectBudget > 0 THEN {"fulfilled", "rejected"} ELSE {"fulfilled"}

Spend(outcome) == IF outcome = "rejected" THEN rejectBudget - 1 ELSE rejectBudget

\* the promise returned by initiateFn settles
InitiateSettle ==
  /\ phase = "initiate"
  /\ \E i \in Items, outcome \in Outcomes :
       /\ promise[i] = "pending"
       /\ promise' = [promise EXCEPT ![i] = outcome]
       /\ rejectBudget' = Spend(outcome)
  /\ UNCHANGED <<concurrency, pc, genPos, results, executing, awaited, index, worker, factoryLog,
                 gateVars, files, phase, wrapper, initiateResults, uploadResults>>
  /\ UNCHANGED otherVars

\* what the settled promise of item i hands to the worker's callbacks
Settlement(i) == [status |-> promise[i], value |-> files[i].fileId]

\* mutant of Recorded: the outcome is stored in completion order, at the first
\* entry that still holds the placeholder
RecordedAtCompletion(res, idx, settlement) ==
  LET k == CHOOSE k \in DOMAIN res : res[k] = Placeholder /\ \A j \in 1..(k-1) : res[j] # Placeholder
  IN [res EXCEPT ![k] = settlement]

\* .then(value => results[index] = fulfilled).catch(reason => results[index] = rejected)
Recorded(res, idx, settlement) == [res EXCEPT ![idx] = settlement]

\* mutant of ChainState: the chain has no catch handler
ChainStateUncaught(status) == status

\* state of the promise .then().catch().finally() returns: the catch handler
\* returns normally, so a rejection does not reach the worker
ChainState(status) == "fulfilled"

\* the then / catch / finally callbacks of the worker of item i run
WorkerCallbacks ==
  /\ \E i \in Items :
       /\ worker[i] = "pending"
       /\ promise[i] \in {"fulfilled", "rejected"}
       /\ results' = Recorded(results, index[i], Settlement(i))
       /\ executing' = executing \ {i}
       /\ worker' = [worker EXCEPT ![i] = ChainState(promise[i])]
  /\ UNCHANGED <<concurrency, pc, genPos, awaited, index, promise, factoryLog,
                 gateVars, coordVars>>
  /\ UNCHANGED otherVars

\* ------------------------------------------------------------------------
\* processFileUpload: try { await acquireUploadSlot; await uploadFn } finally { releaseUploadSlot }
\* ------------------------------------------------------------------------
\* the await of acquireUploadSlot resumes: uploadFn(fileId) is called
WrapperResume ==
  /\ \E i \in Items :
       /\ wrapper[i] = "acquire"
       /\ i \in granted
       /\ wrapper' = [wrapper EXCEPT ![i] = "upload"]
  /\ UNCHANGED <<gateVars, driverVars, files, phase, rejectBudget, initiateResults, uploadResults>>
  /\ UNCHANGED otherVars

\* the promise returned by uploadFn settles
UploadSettle ==
  /\ \E i \in Items, outcome \in Outcomes :
       /\ wrapper[i] = "upload"
       /\ wrapper' = [wrapper EXCEPT ![i] = outcome]
       /\ rejectBudget' = Spend(outcome)
  /\ UNCHANGED <<gateVars, driverVars, files, phase, initiateResults, uploadResults>>
  /\ UNCHANGED otherVars

\* mutant of WrapperFinally: the slot is released after the await instead of
\* in a finally block, so a rejected transfer skips the release
WrapperReleaseOnSuccess ==
  /\ \E i \in Items :
       /\ wrapper[i] \in {"fulfilled", "rejected"}
       /\ IF wrapper[i] = "fulfilled"
            THEN /\ DoRelease(files[i].fileId)
                 /\ released' = [released EXCEPT ![i] = @ + 1]
            ELSE UNCHANGED gateVars
       /\ promise' = [promise EXCEPT ![i] = wrapper[i]]
       /\ wrapper' = [wrapper EXCEPT ![i] = "done"]
  /\ UNCHANGED <<concurrency, pc, genPos, results, executing, awaited, index, worker, factoryLog,
                 files, phase, rejectBudget, initiateResults, uploadResults>>
  /\ UNCHANGED otherVars

\* the await of uploadFn resumes: the finally block releases the slot and the
\* promise of processFileUpload settles as uploadFn did
WrapperFinally ==
  /\ \E i \in Items :
       /\ wrapper[i] \in {"fulfilled", "rejected"}
       /\ DoRelease(files[i].fileId)
       /\ released' = [released EXCEPT ![i] = @ + 1]
       /\ promise' = [promise EXCEPT ![i] = wrapper[i]]
       /\ wrapper' = [wrapper EXCEPT ![i] = "done"]
  /\ UNCHANGED <<concurrency, pc, genPos, results, executing, awaited, index, worker, factoryLog,
                 files, phase, rejectBudget, initiateResults, uploadResults>>
  /\ UNCHANGED otherVars

\* ------------------------------------------------------------------------
\* coordinateUploads
\* ------------------------------------------------------------------------
\* a fresh processConcurrently(generator, c) call over files
StartRun(c) ==
  /\ concurrency' = c
  /\ pc' = "loop"
  /\ genPos' = 0
  /\ results' = <<>>
  /\ executing' = {}
  /\ awaited' = {}
  /\ index' = [i \in Items |-> 0]
  /\ promise' = Blank
  /\ worker' = Blank
  /\ factoryLog' = <<>>

\* mutant of CoordPhase2: phase 2 is started without awaiting phase 1
CoordPhase2NoAwait ==
  /\ phase = "initiate"
  /\ initiateResults' = results
  /\ phase' = "upload"
  /\ StartRun(MAX_CONCURRENT_UPLOAD_TRIGGERS)
  /\ UNCHANGED <<gateVars, files, wrapper, rejectBudget, uploadResults>>
  /\ UNCHANGED otherVars

\* phase 1 returned: initiateResults is bound and phase 2 is started
CoordPhase2 ==
  /\ phase = "initiate"
  /\ pc = "done"
  /\ initiateResults' = results
  /\ phase' = "upload"
  /\ StartRun(MAX_CONCURRENT_UPLOAD_TRIGGERS)
  /\ UNCHANGED <<gateVars, files, wrapper, rejectBudget, uploadResults>>
  /\ UNCHANGED otherVars

\* phase 2 returned: coordinateUploads returns { initiateResults, uploadResults }
CoordReturn ==
  /\ phase = "upload"
  /\ pc = "done"
  /\ uploadResults' = results
  /\ phase' = "returned"
  /\ UNCHANGED <<gateVars, driverVars, files, wrapper, rejectBudget, initiateResults>>
  /\ UNCHANGED otherVars

\* the argument lists: unique ids (the position), every mix of sizes
FileLists(n) == [1..n -> FileSizes]

MakeFiles(sizes) == [i \in DOMAIN sizes |-> [fileId |-> i, fileSize |-> sizes[i]]]

\* a processConcurrently call in its first loop iteration
RunStarts(c) ==
  /\ concurrency = c
  /\ pc = "loop"
  /\ genPos = 0
  /\ results = <<>>
  /\ executing = {}
  /\ awaited = {}
  /\ index = [i \in Items |-> 0]
  /\ promise = Blank
  /\ worker = Blank
  /\ factoryLog = <<>>
  /\ wrapper = Blank
  /\ released = [i \in Items |-> 0]
  /\ initiateResults = <<>>
  /\ uploadResults = <<>>

\* coordinateUploads(files, initiateFn, uploadFn) is called on a fresh module
Init ==
  /\ InitGatekeeper
  /\ run2 = NoSecondRun
  /\ \E n \in 0..MaxFiles : \E sizes \in FileLists(n) : files = MakeFiles(sizes)
  /\ phase = "initiate"
  /\ rejectBudget = MaxRejects
  /\ RunStarts(MAX_CONCURRENT_INITIATES)

\* coordinateUploads passes the limits MAX_CONCURRENT_INITIATES and
\* MAX_CONCURRENT_UPLOAD_TRIGGERS (10): with at most MaxFiles files executing
\* never reaches them, the loop never awaits Promise.race, and
\* DriverResumeRace has nothing to resume here; SpecDriver, where the limit
\* is an argument, covers that await
Next ==
  \/ InitiatePull
  \/ UploadPull
  \/ DriverExhausted
  \/ DriverResumeAll
  \/ InitiateSettle
  \/ WorkerCallbacks
  \/ WrapperResume
  \/ UploadSettle
  \/ WrapperFinally
  \/ CoordPhase2
  \/ CoordReturn

Spec == Init /\ [][Next]_vars

\* the event loop runs every ready callback, and every call of initiateFn
\* and uploadFn eventually settles: the run does not stop while a step is possible
Fairness == WF_vars(Next)

FairSpec == Spec /\ Fairness

\* ------------------------------------------------------------------------
\* SpecDriver: one call processConcurrently(generator, c) on a fresh module,
\* generator being initiateFilesGenerator(ids, initiateFn) or
\* processUploadsGenerator(files, uploadFn), for every c in 1..MaxConcurrency,
\* every number of items up to MaxItems and any outcomes
\* ------------------------------------------------------------------------
InitDriver ==
  /\ InitGatekeeper
  /\ run2 = NoSecondRun
  /\ \E n \in 0..MaxItems : \E sizes \in FileLists(n) :
       /\ files = MakeFiles(sizes)
       /\ \/ phase = "initiate" /\ \A i \in 1..n : sizes[i] = SMALL_FILE_THRESHOLD
          \/ phase = "upload"
  /\ rejectBudget = MaxItems + 1
  /\ \E c \in 1..MaxConcurrency : RunStarts(c)

NextDriver ==
  \/ InitiatePull
  \/ UploadPull
  \/ DriverExhausted
  \/ DriverResumeRace
  \/ DriverResumeAll
  \/ InitiateSettle
  \/ WorkerCallbacks
  \/ WrapperResume
  \/ UploadSettle
  \/ WrapperFinally

SpecDriver == InitDriver /\ [][NextDriver]_vars

\* ------------------------------------------------------------------------
\* Properties of processConcurrently (SpecDriver)
\* ------------------------------------------------------------------------
Pending == {i \in Items : promise[i] = "pending"}

Settled == {i \in Items : promise[i] \in {"fulfilled", "rejected"}}

\* C1: during processConcurrently(generator, C) the number of operations that
\* were pulled from the generator and have not settled is at most C
ConcurrencyBound == Cardinality(Pending) <= concurrency

\* C1 witness: the driver waits with C operations unsettled, an earlier
\* operation having settled and been replaced by a later item
ConcurrencyBoundWitness ==
  /\ pc = "race"
  /\ concurrency = MaxConcurrency
  /\ Cardinality(Pending) = concurrency
  /\ genPos > concurrency

\* C6: every pulled operation owns the entry at its pull position; the entry
\* holds the placeholder until that operation's callbacks ran and its own
\* outcome afterwards; the returned array has one entry per item, entry i
\* being the outcome of items[i]
OrderPreserved ==
  /\ Len(results) = genPos
  /\ \A i \in 1..genPos :
       /\ index[i] = i
       /\ results[i] = IF worker[i] = "pending" THEN Placeholder ELSE Settlement(i)
  /\ pc = "done" =>
       /\ Len(results) = Len(files)
       /\ \A i \in Items : /\ i \in Settled
                           /\ results[i].status = promise[i]
                           /\ results[i].value = files[i].fileId

\* C6 witness: the outcome of the last item landed, as a rejection, while the
\* entry of the first item still holds the placeholder
OrderPreservedWitness ==
  /\ Len(files) = MaxItems
  /\ genPos = Len(files)
  /\ worker[1] = "pending"
  /\ results[1] = Placeholder
  /\ worker[Len(files)] = "fulfilled"
  /\ results[Len(files)] = [status |-> "rejected", value |-> files[Len(files)].fileId]

\* C7: processConcurrently never rejects; it never stops before it returned;
\* when it returns every item was pulled and settled, and every rejection is
\* a rejected entry at that operation's index carrying its reason
FailureIsolation ==
  /\ pc # "rejected"
  /\ \A i \in Items : worker[i] # "rejected"
  /\ (~ ENABLED NextDriver) => pc = "done"
  /\ pc = "done" =>
       /\ genPos = Len(files)
       /\ Settled = Items
       /\ \A i \in Items : promise[i] = "rejected" =>
            results[i] = [status |-> "rejected", value |-> files[i].fileId]

\* C7 witness: with concurrency 1 the first operation rejected, the later
\* ones were still pulled and the run returned with a fulfilled entry
FailureIsolationWitness ==
  /\ pc = "done"
  /\ concurrency = 1
  /\ Len(files) >= 3
  /\ results[1].status = "rejected"
  /\ results[2].status = "fulfilled"
  /\ results[3].status = "rejected"

\* C8: the factory (initiateFn, or the processFileUpload wrapper) is invoked
\* once per item, in input order: the calls made so far are items 1..genPos,
\* and once the generator is exhausted every item was called
AttemptedOnce ==
  /\ factoryLog = [k \in 1..genPos |-> k]
  /\ genPos <= Len(files)
  /\ pc \in {"all", "done"} => genPos = Len(files)

\* C8 witness: a run over processUploadsGenerator returned with every
\* wrapper called, one of its transfers having failed
AttemptedOnceWitness ==
  /\ pc = "done"
  /\ phase = "upload"
  /\ Len(files) = MaxItems
  /\ Len(factoryLog) = MaxItems
  /\ \E i \in Items : results[i].status = "rejected"

\* ------------------------------------------------------------------------
\* Properties of the gatekeeper (SpecGate)
\* ------------------------------------------------------------------------
IsLarge(fileSize) == fileSize > SMALL_FILE_THRESHOLD

LargeActive == {f \in DOMAIN activeUploads : IsLarge(activeUploads[f])}

Waiters == [k \in DOMAIN queue |-> queue[k].resolve]

\* C2: the active set never has more than 5 members
ActiveAtMostFive == MapSize(activeUploads) <= MAX_CONCURRENT_SMALL

\* C2 witness: five slot holders while a sixth caller is kept waiting
ActiveAtMostFiveWitness ==
  /\ MapSize(activeUploads) = MAX_CONCURRENT_SMALL
  /\ Len(queue) >= 1
  /\ LargeActive = {}

\* number of waiters that left the queue so far
Drained == Len(queuedLog) - Len(queue)

\* C3: the waiters still queued are, in order, the most recently appended
\* ones; the waiters admitted so far are the ones appended before them, and
\* they entered the active set in the order they were appended
FifoAdmission ==
  /\ Drained >= 0
  /\ Waiters = SubSeq(queuedLog, Drained + 1, Len(queuedLog))
  /\ \A k \in 1..Drained : queuedLog[k] \in Range(admitLog)
  /\ \A k \in (Drained + 1)..Len(queuedLog) : queuedLog[k] \notin Range(admitLog)
  /\ \A j, k \in 1..Drained :
       j < k => IndexOf(admitLog, queuedLog[j]) < IndexOf(admitLog, queuedLog[k])

\* C3 witness: two waiters were admitted from the queue, the first of them
\* large, while a small waiter appended after them is still queued at a
\* moment the active set has fewer than 5 members
FifoAdmissionWitness ==
  /\ Drained >= 2
  /\ Len(queue) >= 1
  /\ ~ IsLarge(queue[1].fileSize)
  /\ queuedLog[1] \in LargeActive
  /\ MapSize(activeUploads) < MAX_CONCURRENT_SMALL

\* C9: an acquire call (the step that raises calls) compares the active count
\* with the capacity of the active set as it is before the call; below it the
\* candidate is inserted, nothing else changes and the caller is granted at
\* once; otherwise the active set is unchanged, the candidate is appended to
\* the queue and the caller is not granted.  A queued caller is not granted,
\* and a caller becomes granted only by the step that inserts it
AcquireStep ==
  LET c == calls + 1
      maxSlots == getMaxConcurrentSlots(activeUploads)
  IN IF MapSize(activeUploads) < maxSlots
       THEN /\ DOMAIN activeUploads' = DOMAIN activeUploads \cup {c}
            /\ \A f \in DOMAIN activeUploads : activeUploads'[f] = activeUploads[f]
            /\ activeUploads'[c] \in FileSizes
            /\ queue' = queue
            /\ granted' = granted \cup {c}
       ELSE /\ activeUploads' = activeUploads
            /\ \E fileSize \in FileSizes :
                 queue' = Append(queue, [fileId |-> c, fileSize |-> fileSize, resolve |-> c])
            /\ granted' = granted

AcquireDecides ==
  [][/\ calls' = calls + 1 => AcquireStep
     /\ \A k \in DOMAIN queue' : queue'[k].resolve \notin granted'
     /\ \A c \in granted' \ granted :
          /\ c \in DOMAIN activeUploads' \ DOMAIN activeUploads
          /\ c = calls' \/ c \in Range(Waiters)]_vars

\* C9 witness: a large candidate was admitted at once as the fifth member,
\* next to four small items
AcquireDecidesWitness ==
  /\ MapSize(activeUploads) = MAX_CONCURRENT_SMALL
  /\ Cardinality(LargeActive) = 1
  /\ queuedLog = <<>>
  /\ admitLog[Len(admitLog)] \in LargeActive

\* C10: within one drain every admission after the first is made with the
\* active count below the capacity of the active set that includes the
\* waiters admitted earlier in that drain
DrainRecomputes ==
  [][LET n == Len(queue) - Len(queue')
     IN \A k \in 2..n :
          LET later == {queue[j].fileId : j \in k..n}
              before == [f \in (DOMAIN activeUploads') \ later |-> activeUploads'[f]]
          IN MapSize(before) < getMaxConcurrentSlots(before)]_vars

\* ------------------------------------------------------------------------
\* Properties of coordinateUploads (FairSpec)
\* ------------------------------------------------------------------------
\* a wrapper has released exactly when it is past its finally block, never
\* twice, and from then on its id holds no slot
ReleasedOnce ==
  \A i \in Items :
    /\ released[i] = IF wrapper[i] = "done" THEN 1 ELSE 0
    /\ wrapper[i] = "done" =>
         /\ files[i].fileId \notin DOMAIN activeUploads
         /\ promise[i] \in {"fulfilled", "rejected"}

\* the release of wrapper i is made by the step that follows the settlement
\* of its uploadFn call, fulfilled or rejected, it removes the id and leaves
\* no waiter queued that the freed slot could take
ReleaseStep ==
  \A i \in Items :
    released'[i] # released[i] =>
      /\ wrapper[i] \in {"fulfilled", "rejected"}
      /\ i \in granted
      /\ files[i].fileId \in DOMAIN activeUploads
      /\ files[i].fileId \notin DOMAIN activeUploads'
      /\ promise'[i] = wrapper[i]
      /\ \/ queue' = <<>>
         \/ MapSize(activeUploads') >= getMaxConcurrentSlots(activeUploads')

\* every wrapper whose acquire completed has released and its id holds no slot
GrantedReleased ==
  \A i \in Items :
    i \in granted => (released[i] = 1 /\ files[i].fileId \notin DOMAIN activeUploads)

\* C4: every wrapper whose acquire completed releases its id exactly once,
\* after uploadFn settled either way, and the freed slot is offered to the
\* queue; from some point on every such id is absent from the active set
NoSlotLeak ==
  /\ []ReleasedOnce
  /\ [][phase' = phase => ReleaseStep]_vars
  /\ <>[]GrantedReleased

\* C4 witness: a wrapper whose transfer rejected has released its slot, and
\* a waiter was admitted from the queue
NoSlotLeakWitness ==
  /\ phase = "upload"
  /\ \E i \in Items : wrapper[i] = "done" /\ promise[i] = "rejected" /\ released[i] = 1
  /\ Len(queuedLog) >= 1
  /\ queue = <<>>

CapacityCorrect ==
  getCoordinatorState(activeUploads, queue).maxConcurrentSlots =
    IF \E entry \in getCoordinatorState(activeUploads, queue).activeUploads :
         entry.fileSize > 65 * 1024 * 1024
      THEN 3
      ELSE 5

\* C11 witness: only items of exactly the threshold size are active, with a
\* waiter queued, and the reported capacity is 5
CapacityCorrectWitness ==
  /\ MapSize(activeUploads) >= 1
  /\ \A f \in DOMAIN activeUploads : activeUploads[f] = SMALL_FILE_THRESHOLD
  /\ Len(queue) >= 1
  /\ IsLarge(queue[1].fileSize)
  /\ getCoordinatorState(activeUploads, queue).maxConcurrentSlots = MAX_CONCURRENT_SMALL

\* C12: whenever a large file is in the active set, at most 3 uploads are active
LargeLimit == LargeActive # {} => MapSize(activeUploads) <= MAX_CONCURRENT_LARGE

\* every initiate operation of the batch has settled and is recorded
InitiatesSettled ==
  /\ Len(initiateResults) = Len(files)
  /\ \A i \in Items :
       /\ initiateResults[i].status \in {"fulfilled", "rejected"}
       /\ initiateResults[i].value = files[i].fileId

\* C13: during the initiate phase no transfer wrapper has started, no acquire
\* was issued and the active set and wait queue are untouched; once a wrapper
\* has started or an acquire was issued, every initiate operation has settled
SequentialPhases ==
  /\ phase = "initiate" =>
       /\ wrapper = Blank
       /\ calls = 0
       /\ activeUploads = EmptyMap
       /\ queue = <<>>
       /\ admitLog = <<>>
       /\ queuedLog = <<>>
  /\ (calls > 0 \/ wrapper # Blank) => (phase # "initiate" /\ InitiatesSettled)

\* C13 witness: a wrapper is transferring after a phase 1 in which an initiate failed
SequentialPhasesWitness ==
  /\ phase = "upload"
  /\ calls > 0
  /\ \E i \in Items : wrapper[i] = "upload"
  /\ \E i \in Items : initiateResults[i].status = "rejected"

\* the operations before item i whose worker has run its callbacks
SettledBefore(i) == {j \in 1..(i - 1) : worker[j] \notin {"none", "pending"}}

\* C14: the factory has been called for exactly the items the generator was
\* advanced to, in order, and for no item at construction; an item beyond the
\* first C is started only after enough earlier operations settled to make
\* room, and at most C operation handles are unsettled at once
LazyStart ==
  /\ factoryLog = [k \in 1..genPos |-> k]
  /\ \A i \in Items : i > genPos =>
       (promise[i] = "none" /\ worker[i] = "none" /\ wrapper[i] = "none")
  /\ \A i \in Items : (i > concurrency /\ promise[i] # "none") =>
       Cardinality(SettledBefore(i)) >= i - concurrency
  /\ Cardinality({i \in Items : promise[i] = "pending"}) <= concurrency
  /\ Cardinality(executing) <= concurrency

\* C14 witness: with more items than the limit, the item after the first C
\* has been started while exactly one earlier operation has settled and one
\* is still running
LazyStartWitness ==
  /\ Len(files) > concurrency
  /\ concurrency >= 2
  /\ promise[concurrency + 1] = "pending"
  /\ Cardinality(SettledBefore(concurrency + 1)) = 1
  /\ \E j \in 1..concurrency : promise[j] = "pending"

\* ------------------------------------------------------------------------
\* SpecUpload: the transfer phase, processConcurrently(processUploadsGenerator(
\* files, uploadFn), c), on a fresh gatekeeper that nobody else uses, with
\* unique ids and every transfer succeeding; c is the limit coordinateUploads
\* passes, MAX_CONCURRENT_UPLOAD_TRIGGERS, or MaxInFlight, a limit that
\* batches of MaxBatch files exceed
\* ------------------------------------------------------------------------
UploadLimits == {MaxInFlight, MAX_CONCURRENT_UPLOAD_TRIGGERS}

InitUpload ==
  /\ InitGatekeeper
  /\ run2 = NoSecondRun
  /\ \E n \in 0..MaxBatch : \E sizes \in FileLists(n) : files = MakeFiles(sizes)
  /\ phase = "upload"
  /\ rejectBudget = 0
  /\ \E c \in UploadLimits : RunStarts(c)

NextUpload ==
  \/ UploadPull
  \/ DriverExhausted
  \/ DriverResumeRace
  \/ DriverResumeAll
  \/ WorkerCallbacks
  \/ WrapperResume
  \/ UploadSettle
  \/ WrapperFinally

SpecUpload == InitUpload /\ [][NextUpload]_vars

\* the transfer wrappers that were started and have not finished
InFlight == {i \in Items : wrapper[i] \notin {"none", "done"}}

\* C15: in the transfer phase at most as many wrappers are in flight as the
\* limit passed to the driver, 10 in coordinateUploads; each of them holds a
\* slot in the active set or is suspended in the wait queue, so active count
\* + queue depth is at most that limit
PreAdmissionBuffer ==
  /\ Cardinality(InFlight) <= concurrency
  /\ MapSize(activeUploads) + Len(queue) <= concurrency
  /\ \A i \in InFlight :
       \/ files[i].fileId \in DOMAIN activeUploads
       \/ \E k \in DOMAIN queue : queue[k].fileId = files[i].fileId
  /\ concurrency = MAX_CONCURRENT_UPLOAD_TRIGGERS =>
       /\ Cardinality(InFlight) <= 10
       /\ MapSize(activeUploads) + Len(queue) <= 10

\* C15 witness: as many wrappers as the limit are in flight, one of them
\* suspended in the wait queue, while an item of the batch has not been started
PreAdmissionBufferWitness ==
  /\ Cardinality(InFlight) = concurrency
  /\ MapSize(activeUploads) + Len(queue) = concurrency
  /\ Len(queue) > 0
  /\ genPos < Len(files)
  /\ pc = "race"

\* the step is releaseUploadSlot(f) for an active id f
Releases(f) ==
  /\ calls' = calls
  /\ f \in DOMAIN activeUploads
  /\ f \notin DOMAIN activeUploads'

\* the step admitted the head of the queue into rest and nothing else
AdmitsHead(rest) ==
  /\ activeUploads' = MapSet(rest, queue[1].fileId, queue[1].fileSize)
  /\ queue' = Tail(queue)

\* the step admitted nobody: the active set is rest and the queue is unchanged
AdmitsNothing(rest) ==
  /\ activeUploads' = rest
  /\ queue' = queue

\* C16: the reference scenario.  With five small items active an acquire is
\* queued (capacity 5); the release of one of them admits a large queue head,
\* the active count being 5 again (the drain sees capacity 5, the capacity
\* after it is 3); with a large item active the release of another item at
\* active count 5 or 4 admits nothing (capacity 3, nothing evicted); the
\* release at active count 3 leaves 2 and admits the next queued item if
\* there is one
ReferenceScenario ==
  [][/\ (calls' = calls + 1 /\ MapSize(activeUploads) = 5 /\ LargeActive = {}) =>
          /\ getMaxConcurrentSlots(activeUploads) = 5
          /\ activeUploads' = activeUploads
          /\ Len(queue') = Len(queue) + 1
          /\ queue'[Len(queue')].fileId = calls'
     /\ \A f \in DOMAIN activeUploads : Releases(f) =>
          LET rest == MapDelete(activeUploads, f)
          IN /\ (/\ MapSize(activeUploads) = 5
                 /\ LargeActive = {}
                 /\ queue # <<>>
                 /\ IsLarge(queue[1].fileSize)) =>
                   /\ getMaxConcurrentSlots(rest) = 5
                   /\ AdmitsHead(rest)
                   /\ MapSize(activeUploads') = 5
                   /\ getMaxConcurrentSlots(activeUploads') = 3
             /\ (LargeActive \ {f} # {} /\ MapSize(activeUploads) \in {4, 5}) =>
                   /\ getMaxConcurrentSlots(rest) = 3
                   /\ AdmitsNothing(rest)
                   /\ MapSize(activeUploads') \in {3, 4}
             /\ (LargeActive \ {f} # {} /\ MapSize(activeUploads) = 3) =>
                   /\ getMaxConcurrentSlots(rest) = 3
                   /\ MapSize(rest) = 2
                   /\ IF queue = <<>> THEN AdmitsNothing(rest) ELSE AdmitsHead(rest)]_vars

\* C16 witness: the end of the scenario.  S1..S5 are the calls 1..5, L1 is
\* call 6 and was queued, a further item 7 was queued behind it; after the
\* releases of S1..S4 the active set is S5, L1 and item 7
ReferenceScenarioWitness ==
  /\ admitLog = <<1, 2, 3, 4, 5, 6, 7>>
  /\ queuedLog = <<6, 7>>
  /\ queue = <<>>
  /\ DOMAIN activeUploads = {5, 6, 7}
  /\ IsLarge(activeUploads[6])
  /\ ~ IsLarge(activeUploads[5])

\* ------------------------------------------------------------------------
\* Properties of the gatekeeper with resetCoordinator (SpecReset)
\* ------------------------------------------------------------------------
\* the gatekeeper state of a freshly loaded module
FreshGate == [active |-> EmptyMap, queue |-> <<>>]

\* C17: resetCoordinator leaves the active set and the wait queue empty, with
\* capacity 5, whatever the state it is called in; a second reset changes
\* nothing; an acquire on the state reset leaves does what it does on a fresh
\* gatekeeper: the candidate is admitted immediately
ResetClears ==
  /\ [](LET r == resetCoordinator(activeUploads, queue)
        IN /\ r = FreshGate
           /\ getMaxConcurrentSlots(r.active) = 5
           /\ resetCoordinator(r.active, r.queue) = r
           /\ \A fileSize \in FileSizes :
                /\ acquireUploadSlot(r.active, r.queue, calls + 1, fileSize, calls + 1) =
                     acquireUploadSlot(FreshGate.active, FreshGate.queue, calls + 1, fileSize, calls + 1)
                /\ acquireUploadSlot(r.active, r.queue, calls + 1, fileSize, calls + 1).admitted)
  /\ [][/\ GateReset => (/\ activeUploads' = EmptyMap
                         /\ queue' = <<>>
                         /\ getCoordinatorState(activeUploads', queue').maxConcurrentSlots = 5)
        /\ (calls' = calls + 1 /\ activeUploads = EmptyMap /\ queue = <<>>) =>
             /\ DOMAIN activeUploads' = {calls'}
             /\ queue' = <<>>
             /\ calls' \in granted']_vars

\* C17 witness: a reset dropped a queued waiter and the slot holders, and the
\* acquire after it was admitted at once as the only active item
ResetClearsWitness ==
  /\ \E c \in Range(queuedLog) : c \notin Range(admitLog) /\ c < calls
  /\ queue = <<>>
  /\ DOMAIN activeUploads = {calls}
  /\ calls \in granted

\* ------------------------------------------------------------------------
\* Properties of the value coordinateUploads returns (FairSpec)
\* ------------------------------------------------------------------------
\* res has one settled entry per file, at the file's position
CompleteResults(res) ==
  /\ Len(res) = Len(files)
  /\ \A i \in Items :
       /\ res[i].status \in {"fulfilled", "rejected"}
       /\ res[i].value = files[i].fileId
  /\ Cardinality({i \in Items : res[i].status = "fulfilled"})
       + Cardinality({i \in Items : res[i].status = "rejected"}) = Len(files)

NoEviction ==
  [][\A f \in DOMAIN activeUploads :
       \/ f \in DOMAIN activeUploads' /\ activeUploads'[f] = activeUploads[f]
       \/ GateReleaseOf(f)
       \/ GateReset]_vars

\* C19 witness: after a release four items are active, above the capacity 3
\* that the large one among them sets, and a waiter is queued
NoEvictionWitness ==
  /\ MapSize(activeUploads) = 4
  /\ LargeActive # {}
  /\ queue # <<>>
  /\ \E f \in Range(admitLog) : f \notin DOMAIN activeUploads

\* C20: if the wait queue is non-empty, the active count is at least the
\* capacity of the active set, so an arriving acquire would not be admitted
WorkConserving ==
  queue # <<>> =>
    /\ MapSize(activeUploads) >= getMaxConcurrentSlots(activeUploads)
    /\ \A fileSize \in FileSizes :
         ~ acquireUploadSlot(activeUploads, queue, calls + 1, fileSize, calls + 1).admitted

\* C20 witness: a drain admitted a waiter that is still active, the active
\* set is exactly at its capacity 3 and another waiter is queued
WorkConservingWitness ==
  /\ queue # <<>>
  /\ LargeActive # {}
  /\ MapSize(activeUploads) = MAX_CONCURRENT_LARGE
  /\ \E c \in Range(queuedLog) : c \in DOMAIN activeUploads

\* ------------------------------------------------------------------------
\* Further properties of the gatekeeper (SpecGate, FairGate)
\* ------------------------------------------------------------------------
\* C21: callers are admitted in the order of their acquire calls (caller k
\* made the k-th call), and an acquire that arrives while the queue is
\* non-empty is appended to its tail and admits nobody
ArrivalOrder ==
  /\ [](admitLog = [k \in 1..Len(admitLog) |-> k])
  /\ [][(calls' = calls + 1 /\ queue # <<>>) =>
          /\ Len(queue') = Len(queue) + 1
          /\ SubSeq(queue', 1, Len(queue)) = queue
          /\ queue'[Len(queue')].resolve = calls'
          /\ admitLog' = admitLog
          /\ activeUploads' = activeUploads]_vars

\* C21 witness: a caller that arrived while another was queued was put
\* behind it; the earlier one has since been admitted, the later one waits
ArrivalOrderWitness ==
  /\ Len(queuedLog) >= 3
  /\ Len(queue) = 1
  /\ queue[1].resolve = queuedLog[Len(queuedLog)]
  /\ queuedLog[1] \in DOMAIN activeUploads
  /\ queuedLog[2] \in DOMAIN activeUploads

\* C22: when every slot holder is eventually released, every caller waiting
\* in the queue is eventually admitted and its resolve callback called
NoStarvation ==
  \A c \in 1..MaxCalls : (c \in Range(Waiters)) ~> (c \in granted /\ c \in Range(admitLog))

\* C22 witness: all calls were made, the sixth and seventh caller had to
\* wait while five items were active, and every caller has been admitted and
\* released
NoStarvationWitness ==
  /\ calls = MaxCalls
  /\ activeUploads = EmptyMap
  /\ queue = <<>>
  /\ queuedLog = <<6, 7>>
  /\ admitLog = <<1, 2, 3, 4, 5, 6, 7>>
  /\ granted = 1..MaxCalls

\* C23: at most 3 large items are in the active set at the same time
LargeAtMostThree == Cardinality(LargeActive) <= 3

\* C23 witness: three large items are active next to two small ones
LargeAtMostThreeWitness ==
  /\ Cardinality(LargeActive) = 3
  /\ MapSize(activeUploads) = 5

\* C24: no caller is admitted twice and no waiter is queued twice; a caller
\* is granted exactly when it was inserted; every call so far was inserted
\* once or is waiting once; each step takes as many waiters off the queue as
\* it inserts and grants
NoDoubleAdmission ==
  /\ [](/\ \A j, k \in DOMAIN admitLog : admitLog[j] = admitLog[k] => j = k
        /\ \A j, k \in DOMAIN queue : queue[j].resolve = queue[k].resolve => j = k
        /\ Range(Waiters) \cap Range(admitLog) = {}
        /\ granted = Range(admitLog)
        /\ DOMAIN activeUploads \subseteq Range(admitLog)
        /\ Range(admitLog) \cup Range(Waiters) = 1..calls
        /\ Len(admitLog) + Len(queue) = calls)
  /\ [][/\ calls' = calls =>
             /\ Len(queue') <= Len(queue)
             /\ Len(admitLog') - Len(admitLog) = Len(queue) - Len(queue')
             /\ DOMAIN activeUploads' \ DOMAIN activeUploads =
                  {queue[k].fileId : k \in 1..(Len(queue) - Len(queue'))}
        /\ calls' = calls + 1 =>
             Cardinality((DOMAIN activeUploads' \ DOMAIN activeUploads) \cup
                         (Range([k \in DOMAIN queue' |-> queue'[k].resolve]) \ Range(Waiters))) = 1]_vars

\* C24 witness: one drain admitted three waiters; every call made was
\* admitted exactly once
NoDoubleAdmissionWitness ==
  /\ Len(queuedLog) >= 3
  /\ queue = <<>>
  /\ \A c \in Range(queuedLog) : c \in DOMAIN activeUploads
  /\ Len(admitLog) = calls

\* C25: processConcurrently waits for a settlement only with exactly C
\* operations in flight; it goes on when an awaited worker has settled and
\* then starts items without waiting as long as fewer than C are in flight;
\* it awaits all workers only once the generator is exhausted and returns
\* when every worker is done
SingleWaitPoint ==
  /\ [](/\ pc = "race" => Cardinality(awaited) = concurrency
        /\ pc = "all" => GeneratorDone(genPos)
        /\ pc = "done" => (GeneratorDone(genPos) /\ executing = {}
                           /\ \A i \in Items : worker[i] = "fulfilled")
        /\ (pc = "loop" /\ ~ GeneratorDone(genPos)) =>
             (Cardinality(executing) < concurrency /\ ENABLED (InitiatePull \/ UploadPull)))
  /\ [][/\ genPos' # genPos =>
             /\ pc = "loop"
             /\ pc' = IF Cardinality(executing') >= concurrency THEN "race" ELSE "loop"
        /\ (pc = "race" /\ pc' # "race") =>
             /\ pc' = "loop"
             /\ \E i \in awaited : worker[i] # "pending"
        /\ (pc = "all" /\ pc' # "all") =>
             /\ pc' = "done"
             /\ \A i \in awaited : worker[i] # "pending"]_vars

\* C25 witness: both operations the driver was waiting on have settled
\* before it went on, and it is back in the loop with nothing in flight and
\* an item still to start
SingleWaitPointWitness ==
  /\ pc = "loop"
  /\ concurrency = MaxConcurrency
  /\ genPos = concurrency
  /\ genPos < Len(files)
  /\ executing = {}

\* ------------------------------------------------------------------------
\* SpecRunReset: the transfer phase of a coordinateUploads run during which
\* resetCoordinator may be called at any moment (the reset button of App.tsx)
\* ------------------------------------------------------------------------
InitRunReset ==
  /\ InitGatekeeper
  /\ run2 = NoSecondRun
  /\ \E n \in 0..MaxFiles : \E sizes \in FileLists(n) : files = MakeFiles(sizes)
  /\ phase = "upload"
  /\ rejectBudget = MaxRejects
  /\ RunStarts(MAX_CONCURRENT_UPLOAD_TRIGGERS)

NextRunReset ==
  \/ UploadPull
  \/ DriverExhausted
  \/ DriverResumeAll
  \/ WorkerCallbacks
  \/ WrapperResume
  \/ UploadSettle
  \/ WrapperFinally
  \/ CoordReturn
  \/ GateReset

SpecRunReset == InitRunReset /\ [][NextRunReset]_vars

\* wrapper i is suspended in acquireUploadSlot
Suspended(i) == wrapper[i] = "acquire" /\ i \notin granted

\* wrapper i is suspended and no queue entry holds its resolve callback
Dropped(i) == Suspended(i) /\ \A k \in DOMAIN queue : queue[k].resolve # i

\* C26: resetCoordinator leaves every suspended caller suspended and without
\* a queue entry; such a caller stays so in every later step, its worker stays
\* pending, and the run it belongs to does not return
ResetDropsWaiters ==
  /\ [][GateReset => \A i \in Items : Suspended(i) => Dropped(i)']_vars
  /\ [][\A i \in Items : Dropped(i) => Dropped(i)']_vars
  /\ [](\A i \in Items : Dropped(i) =>
          /\ worker[i] = "pending"
          /\ pc \in {"loop", "all"}
          /\ phase = "upload"
          /\ ~ ENABLED CoordReturn)

\* C26 witness: a reset dropped the waiter of the last file; every other
\* wrapper has finished and the driver awaits the dropped one in Promise.all
ResetDropsWaitersWitness ==
  /\ Len(files) = MaxFiles
  /\ Dropped(MaxFiles)
  /\ pc = "all"
  /\ \A i \in 1..(MaxFiles - 1) : wrapper[i] = "done" /\ worker[i] = "fulfilled"

\* ------------------------------------------------------------------------
\* SpecDup: the transfer phase of a coordinateUploads run over files whose
\* ids are drawn from 1..MaxIds, so that ids repeat within the batch
\* ------------------------------------------------------------------------
MakeFilesWithIds(ids, sizes) ==
  [i \in DOMAIN sizes |-> [fileId |-> ids[i], fileSize |-> sizes[i]]]

InitDup ==
  /\ InitGatekeeper
  /\ run2 = NoSecondRun
  /\ \E n \in 0..MaxFiles : \E ids \in [1..n -> 1..MaxIds], sizes \in FileLists(n) :
       files = MakeFilesWithIds(ids, sizes)
  /\ phase = "upload"
  /\ rejectBudget = 0
  /\ RunStarts(MAX_CONCURRENT_UPLOAD_TRIGGERS)

NextDup ==
  \/ UploadPull
  \/ DriverExhausted
  \/ DriverResumeAll
  \/ WorkerCallbacks
  \/ WrapperResume
  \/ UploadSettle
  \/ WrapperFinally

SpecDup == InitDup /\ [][NextDup]_vars

\* the callers between the completion of their acquire and their release
Holders == {i \in Items : i \in granted /\ released[i] = 0}

\* C27: an acquire for an id that is already active, made below capacity, is
\* admitted at once, leaves the active count unchanged and overwrites the
\* recorded size; a release removes the entry of its id although another
\* caller still holds that id (unless the drain re-inserts the id for a
\* waiter); every active entry belongs to some holder, so the holders are at
\* least as many as the active entries
DuplicateIds ==
  /\ [][\A i \in Items :
          LET id == files[i].fileId
          IN /\ (genPos' = i /\ genPos # i /\ id \in DOMAIN activeUploads
                 /\ MapSize(activeUploads) < getMaxConcurrentSlots(activeUploads)) =>
                  /\ i \in granted'
                  /\ queue' = queue
                  /\ MapSize(activeUploads') = MapSize(activeUploads)
                  /\ activeUploads' = [activeUploads EXCEPT ![id] = files[i].fileSize]
             /\ (released'[i] # released[i] /\ \A k \in DOMAIN queue : queue[k].fileId # id) =>
                  id \notin DOMAIN activeUploads']_vars
  /\ [](/\ DOMAIN activeUploads \subseteq {files[i].fileId : i \in Holders}
        /\ MapSize(activeUploads) <= Cardinality(Holders))

\* C27 witness: two callers hold the same id and both are transferring; the
\* first release removed the entry, so a transfer is running whose id is
\* not in the active set
DuplicateIdsWitness ==
  /\ \E i, j \in Items :
       /\ i # j
       /\ files[i].fileId = files[j].fileId
       /\ wrapper[i] = "done"
       /\ wrapper[j] = "upload"
       /\ j \in Holders
       /\ files[j].fileId \notin DOMAIN activeUploads
  /\ Cardinality(Holders) > MapSize(activeUploads)

\* ------------------------------------------------------------------------
\* Queue-based initiate variant: queueFileInitiate / processInitiateQueue.
\* The k-th queueFileInitiate call uses the fresh id k.  initiateOp[k].path
\* tells whether the call took a slot itself ("direct") or was pushed on
\* initiateQueue ("queued"); its status is "queued", "running" (initiateFn
\* called, not settled), "fulfilled" / "rejected" (initiateFn settled, the
\* continuation has not run), "resolved" / "thrown" (the promise
\* queueFileInitiate returned has settled)
\* ------------------------------------------------------------------------
\* the while loop of processInitiateQueue; started collects the fileIds whose
\* initiateFn is called, in order
RECURSIVE processInitiateQueue(_, _, _)
processInitiateQueue(active, q, started) ==
  IF Len(q) > 0 /\ Cardinality(active) < MAX_CONCURRENT_INITIATES
    THEN LET next == Head(q)
         IN processInitiateQueue(active \cup {next.fileId}, Tail(q), Append(started, next.fileId))
    ELSE [active |-> active, queue |-> q, started |-> started]

\* mutant of queueFileInitiate: the slot test is <= instead of <
queueFileInitiateOffByOne(active, q, fileId) ==
  IF Cardinality(active) <= MAX_CONCURRENT_INITIATES
    THEN [active |-> active \cup {fileId}, queue |-> q, direct |-> TRUE]
    ELSE [active |-> active, queue |-> Append(q, [fileId |-> fileId, resolve |-> fileId]),
          direct |-> FALSE]

\* queueFileInitiate up to its first await or its return
queueFileInitiate(active, q, fileId) ==
  IF Cardinality(active) < MAX_CONCURRENT_INITIATES
    THEN [active |-> active \cup {fileId}, queue |-> q, direct |-> TRUE]
    ELSE [active |-> active, queue |-> Append(q, [fileId |-> fileId, resolve |-> fileId]),
          direct |-> FALSE]

\* mutant of afterInitiate: after a rejection the queue is not processed
afterInitiateStalls(active, q, fileId, outcome) ==
  IF outcome = "rejected"
    THEN [active |-> active \ {fileId}, queue |-> q, started |-> <<>>]
    ELSE processInitiateQueue(active \ {fileId}, q, <<>>)

\* what runs once initiateFn has settled, on either path and for either
\* outcome: activeInitiates.delete(fileId), then processInitiateQueue()
afterInitiate(active, q, fileId, outcome) == processInitiateQueue(active \ {fileId}, q, <<>>)

\* the state the promise returned by queueFileInitiate settles in
CallerOutcome(outcome) == IF outcome = "fulfilled" THEN "resolved" ELSE "thrown"

InitiateCalls == Cardinality({k \in DOMAIN initiateOp : initiateOp[k] # NotCalled})

\* queueFileInitiate(fileId, initiateFn) is called
QueueFileInitiate ==
  /\ InitiateCalls < MaxInitiateCalls
  /\ LET k == InitiateCalls + 1
         r == queueFileInitiate(activeInitiates, initiateQueue, k)
     IN /\ activeInitiates' = r.active
        /\ initiateQueue' = r.queue
        /\ initiateOp' = [initiateOp EXCEPT ![k] =
                            IF r.direct THEN [path |-> "direct", status |-> "running"]
                                        ELSE [path |-> "queued", status |-> "queued"]]
  /\ UNCHANGED <<gateVars, driverVars, coordVars, run2>>

\* the calls whose initiateFn may reject: the first call, which takes a slot
\* itself, and the last one, which is queued once the limit is reached
FailingCalls == {1, MaxInitiateCalls}

\* the states the initiateFn of call k may settle in
InitiateOutcomes(k) == IF k \in FailingCalls THEN {"fulfilled", "rejected"} ELSE {"fulfilled"}

\* the promise returned by an initiateFn call settles
InitiateFnSettle ==
  /\ \E k \in DOMAIN initiateOp : \E outcome \in InitiateOutcomes(k) :
       /\ initiateOp[k].status = "running"
       /\ initiateOp' = [initiateOp EXCEPT ![k].status = outcome]
  /\ UNCHANGED <<activeInitiates, initiateQueue, gateVars, driverVars, coordVars, run2>>

\* effect of the code that follows the settlement of the initiateFn of call k
AfterInitiate(k) ==
  LET r == afterInitiate(activeInitiates, initiateQueue, k, initiateOp[k].status)
  IN /\ activeInitiates' = r.active
     /\ initiateQueue' = r.queue
     /\ initiateOp' = [j \in DOMAIN initiateOp |->
                         IF j = k THEN [initiateOp[k] EXCEPT !.status = CallerOutcome(@)]
                         ELSE IF j \in Range(r.started) THEN [initiateOp[j] EXCEPT !.status = "running"]
                         ELSE initiateOp[j]]

\* queueFileInitiate resumes after await initiateFn(): the try or the catch branch
QueueResume ==
  /\ \E k \in DOMAIN initiateOp :
       /\ initiateOp[k].path = "direct"
       /\ initiateOp[k].status \in {"fulfilled", "rejected"}
       /\ AfterInitiate(k)
  /\ UNCHANGED <<gateVars, driverVars, coordVars, run2>>

\* the then / catch callback that processInitiateQueue attached runs
QueueCallbacks ==
  /\ \E k \in DOMAIN initiateOp :
       /\ initiateOp[k].path = "queued"
       /\ initiateOp[k].status \in {"fulfilled", "rejected"}
       /\ AfterInitiate(k)
  /\ UNCHANGED <<gateVars, driverVars, coordVars, run2>>

\* SpecQueue: any sequence of queueFileInitiate calls with unique ids on a
\* fresh module, the initiateFn calls settling in any order
NextQueue == QueueFileInitiate \/ InitiateFnSettle \/ QueueResume \/ QueueCallbacks

SpecQueue == InitGate /\ [][NextQueue]_vars

\* the calls whose initiateFn was called and has not settled
RunningInitiates == {k \in DOMAIN initiateOp : initiateOp[k].status = "running"}

\* the calls waiting in initiateQueue
QueuedInitiates == {initiateQueue[j].fileId : j \in DOMAIN initiateQueue}

\* C29: activeInitiates never has more than 10 members and every running
\* initiate is one of them; a call made while 10 are active is queued without
\* its initiateFn being called, and a queued initiateFn is called only in a
\* step that removes a settled member from activeInitiates
InitiateLimit ==
  /\ [](/\ Cardinality(activeInitiates) <= 10
        /\ RunningInitiates \subseteq activeInitiates
        /\ Cardinality(RunningInitiates) <= 10
        /\ \A k \in DOMAIN initiateOp : initiateOp[k].status = "queued" <=> k \in QueuedInitiates)
  /\ [][/\ \A k \in DOMAIN initiateOp :
             (initiateOp[k] = NotCalled /\ initiateOp'[k] # NotCalled
              /\ Cardinality(activeInitiates) = 10) =>
                /\ initiateOp'[k] = [path |-> "queued", status |-> "queued"]
                /\ k \in QueuedInitiates'
                /\ activeInitiates' = activeInitiates
        /\ \A k \in DOMAIN initiateOp :
             (initiateOp[k].status = "queued" /\ initiateOp'[k].status # "queued") =>
                /\ initiateOp'[k].status = "running"
                /\ \E j \in activeInitiates \ activeInitiates' :
                     initiateOp[j].status \in {"fulfilled", "rejected"}]_vars

\* C29 witness: the eleventh call was queued behind ten active initiates and
\* was started when one of them settled; ten are active again
InitiateLimitWitness ==
  /\ Cardinality(activeInitiates) = 10
  /\ initiateOp[11] = [path |-> "queued", status |-> "running"]
  /\ 11 \in activeInitiates

\* C30: the step that follows a rejection of the initiateFn of call k removes
\* k from activeInitiates, rejects the promise of that call and of no other,
\* and processes the queue, so that afterwards the queue is empty or ten
\* initiates are active; a queued initiate never waits below the limit and
\* only unsettled or just-settled initiates hold a slot
InitiateFailure ==
  /\ [][\A k \in DOMAIN initiateOp :
          (initiateOp[k].status = "rejected" /\ initiateOp'[k].status # "rejected") =>
             /\ k \notin activeInitiates'
             /\ initiateOp'[k].status = "thrown"
             /\ \A j \in DOMAIN initiateOp \ {k} :
                  \/ initiateOp'[j] = initiateOp[j]
                  \/ initiateOp[j].status = "queued" /\ initiateOp'[j].status = "running"
             /\ initiateQueue # <<>> =>
                  (Head(initiateQueue).fileId \in activeInitiates'
                   /\ initiateOp'[Head(initiateQueue).fileId].status = "running")
             /\ initiateQueue' = <<>> \/ Cardinality(activeInitiates') = 10]_vars
  /\ [](/\ initiateQueue # <<>> => Cardinality(activeInitiates) = 10
        /\ \A k \in activeInitiates :
             initiateOp[k].status \in {"running", "fulfilled", "rejected"})

\* C30 witness: an initiate failed while ten were active and one was queued;
\* its caller saw the error and the queued initiate has been started
InitiateFailureWitness ==
  /\ \E k \in DOMAIN initiateOp : initiateOp[k].status = "thrown"
  /\ initiateOp[11].path = "queued"
  /\ initiateOp[11].status = "running"
  /\ initiateQueue = <<>>

\* ------------------------------------------------------------------------
\* SpecTwoRuns: two coordinateUploads runs on the same module, both in their
\* transfer phase.  The first run uses the variables of Spec; the locals of
\* the second run are the fields of run2, its generator, driver and wrapper
\* steps are those of the first run, acting on run2.  The ids of the second
\* run follow those of the first; wrapper j of the second run is the caller
\* Len(files) + j
\* ------------------------------------------------------------------------
Items2 == 1..Len(run2.files)

Caller2(j) == Len(files) + j

MakeFilesFrom(first, sizes) ==
  [j \in DOMAIN sizes |-> [fileId |-> first + j, fileSize |-> sizes[j]]]

\* a processConcurrently(processUploadsGenerator(fs, uploadFn), 10) call in
\* its first loop iteration
RunStarts2(fs) ==
  [files |-> fs,
   pc |-> "loop",
   genPos |-> 0,
   results |-> <<>>,
   executing |-> {},
   awaited |-> {},
   index |-> [j \in DOMAIN fs |-> 0],
   promise |-> [j \in DOMAIN fs |-> "none"],
   worker |-> [j \in DOMAIN fs |-> "none"],
   wrapper |-> [j \in DOMAIN fs |-> "none"],
   released |-> [j \in DOMAIN fs |-> 0]]

\* mutant of UploadPull2: the second run has a pool of its own that always admits
UploadPull2Private ==
  /\ run2.pc = "loop"
  /\ run2.genPos < Len(run2.files)
  /\ LET j == NextItem(run2.genPos)
         exec == run2.executing \cup {j}
         wait == AtCapacity(exec, MAX_CONCURRENT_UPLOAD_TRIGGERS)
     IN /\ granted' = granted \cup {Caller2(j)}
        /\ UNCHANGED <<activeUploads, queue, admitLog, queuedLog, calls>>
        /\ run2' = [run2 EXCEPT !.genPos = j,
                                !.promise[j] = "pending",
                                !.wrapper[j] = "acquire",
                                !.index[j] = CapturedIndex(run2.results),
                                !.results = Append(@, Placeholder),
                                !.worker[j] = "pending",
                                !.executing = exec,
                                !.pc = IF wait THEN "race" ELSE "loop",
                                !.awaited = IF wait THEN exec ELSE @]
  /\ UNCHANGED <<released, driverVars, coordVars, queueVars>>

\* the driver of the second run advances its generator: processFileUpload(file)
\* runs through the body of acquireUploadSlot, then the loop body of
\* processConcurrently
UploadPull2 ==
  /\ run2.pc = "loop"
  /\ run2.genPos < Len(run2.files)
  /\ LET j == NextItem(run2.genPos)
         exec == run2.executing \cup {j}
         wait == AtCapacity(exec, MAX_CONCURRENT_UPLOAD_TRIGGERS)
     IN /\ DoAcquire(run2.files[j].fileId, run2.files[j].fileSize, Caller2(j))
        /\ run2' = [run2 EXCEPT !.genPos = j,
                                !.promise[j] = "pending",
                                !.wrapper[j] = "acquire",
                                !.index[j] = CapturedIndex(run2.results),
                                !.results = Append(@, Placeholder),
                                !.worker[j] = "pending",
                                !.executing = exec,
                                !.pc = IF wait THEN "race" ELSE "loop",
                                !.awaited = IF wait THEN exec ELSE @]
  /\ UNCHANGED <<released, driverVars, coordVars, queueVars>>

\* the generator of the second run is exhausted: await Promise.all(executing)
DriverExhausted2 ==
  /\ run2.pc = "loop"
  /\ run2.genPos >= Len(run2.files)
  /\ run2' = [run2 EXCEPT !.pc = "all", !.awaited = run2.executing]
  /\ UNCHANGED <<gateVars, driverVars, coordVars, queueVars>>

\* await Promise.all(executing) of the second run
DriverResumeAll2 ==
  /\ run2.pc = "all"
  /\ \/ /\ \E j \in run2.awaited : run2.worker[j] = "rejected"
        /\ run2' = [run2 EXCEPT !.pc = "rejected", !.awaited = {}]
     \/ /\ \A j \in run2.awaited : run2.worker[j] = "fulfilled"
        /\ run2' = [run2 EXCEPT !.pc = "done", !.awaited = {}]
  /\ UNCHANGED <<gateVars, driverVars, coordVars, queueVars>>

\* the then / catch / finally callbacks of a worker of the second run
WorkerCallbacks2 ==
  /\ \E j \in Items2 :
       /\ run2.worker[j] = "pending"
       /\ run2.promise[j] \in {"fulfilled", "rejected"}
       /\ run2' = [run2 EXCEPT
                     !.results = Recorded(@, run2.index[j],
                                          [status |-> run2.promise[j], value |-> run2.files[j].fileId]),
                     !.executing = @ \ {j},
                     !.worker[j] = ChainState(run2.promise[j])]
  /\ UNCHANGED <<gateVars, driverVars, coordVars, queueVars>>

\* the await of acquireUploadSlot resumes in a wrapper of the second run
WrapperResume2 ==
  /\ \E j \in Items2 :
       /\ run2.wrapper[j] = "acquire"
       /\ Caller2(j) \in granted
       /\ run2' = [run2 EXCEPT !.wrapper[j] = "upload"]
  /\ UNCHANGED <<gateVars, driverVars, coordVars, queueVars>>

\* the promise returned by uploadFn settles in a wrapper of the second run
UploadSettle2 ==
  /\ \E j \in Items2, outcome \in Outcomes :
       /\ run2.wrapper[j] = "upload"
       /\ run2' = [run2 EXCEPT !.wrapper[j] = outcome]
       /\ rejectBudget' = Spend(outcome)
  /\ UNCHANGED <<gateVars, driverVars, files, phase, wrapper, initiateResults, uploadResults,
                 queueVars>>

\* the finally block of a wrapper of the second run releases its slot
WrapperFinally2 ==
  /\ \E j \in Items2 :
       /\ run2.wrapper[j] \in {"fulfilled", "rejected"}
       /\ DoRelease(run2.files[j].fileId)
       /\ run2' = [run2 EXCEPT !.released[j] = @ + 1,
                               !.promise[j] = run2.wrapper[j],
                               !.wrapper[j] = "done"]
  /\ UNCHANGED <<released, driverVars, coordVars, queueVars>>

\* a batch of n small files, so that the capacity is 5 throughout
SmallSizes(n) == [j \in 1..n |-> SMALL_FILE_THRESHOLD]

InitTwoRuns ==
  /\ InitGatekeeper
  /\ files = MakeFiles(SmallSizes(MaxRunFiles))
  /\ run2 = RunStarts2(MakeFilesFrom(MaxRunFiles, SmallSizes(MaxRunFiles2)))
  /\ phase = "upload"
  /\ rejectBudget = 0
  /\ RunStarts(MAX_CONCURRENT_UPLOAD_TRIGGERS)

NextTwoRuns ==
  \/ UploadPull
  \/ DriverExhausted
  \/ DriverResumeAll
  \/ WorkerCallbacks
  \/ WrapperResume
  \/ UploadSettle
  \/ WrapperFinally
  \/ UploadPull2
  \/ DriverExhausted2
  \/ DriverResumeAll2
  \/ WorkerCallbacks2
  \/ WrapperResume2
  \/ UploadSettle2
  \/ WrapperFinally2

SpecTwoRuns == InitTwoRuns /\ [][NextTwoRuns]_vars

\* the ids whose wrapper is past its acquire and has not released, per run
Holding1 == {files[i].fileId : i \in {i \in Items : i \in granted /\ wrapper[i] # "done"}}

Holding2 == {run2.files[j].fileId : j \in {j \in Items2 : Caller2(j) \in granted /\ run2.wrapper[j] # "done"}}

\* the ids whose uploadFn call has not settled, per run
Transferring1 == {files[i].fileId : i \in {i \in Items : wrapper[i] = "upload"}}

Transferring2 == {run2.files[j].fileId : j \in {j \in Items2 : run2.wrapper[j] = "upload"}}

\* C28: the wrappers of both runs hold their slots in the one active set and
\* wait in the one queue, so at most 5 transfers run across both runs together
SharedPool ==
  /\ Holding1 \cup Holding2 = DOMAIN activeUploads
  /\ Cardinality(Holding1) + Cardinality(Holding2) <= 5
  /\ Cardinality(Transferring1) + Cardinality(Transferring2) <= 5
  /\ \A i \in Items : (wrapper[i] = "acquire" /\ i \notin granted) =>
       \E k \in DOMAIN queue : queue[k].resolve = i
  /\ \A j \in Items2 : (run2.wrapper[j] = "acquire" /\ Caller2(j) \notin granted) =>
       \E k \in DOMAIN queue : queue[k].resolve = Caller2(j)

\* C28 witness: five transfers are running, some of each run, and a wrapper
\* of the first run waits in the queue behind them
SharedPoolWitness ==
  /\ Cardinality(Transferring1) + Cardinality(Transferring2) = 5
  /\ Cardinality(Transferring1) >= 1
  /\ Cardinality(Transferring2) >= 1
  /\ \E k \in DOMAIN queue : queue[k].resolve \in Items

====
